---- MODULE Spec2Model ----
(***************************************************************************)
(* Model of swh/fuse/fs/artifact.py: the entry tree that exposes the       *)
(* archive's artifacts as files, directories and symlinks, and the three   *)
(* history sharding views (by-date, by-hash, by-page).                     *)
(*                                                                         *)
(* Text is modelled as a sequence of one-character strings, so that the    *)
(* slicing, prefix tests, splitting and formatting of the source are       *)
(* computed and not assumed.                                               *)
(*                                                                         *)
(* Scheduling: the code runs as asyncio coroutines on one thread.  A       *)
(* coroutine gives up control at an await, and a listing hands its         *)
(* children to its consumer one by one.                                    *)
(***************************************************************************)
EXTENDS Integers, Sequences, FiniteSets, TLC

(***************************************************************************)
(* Bounds of the model                                                     *)
(***************************************************************************)
\* length of an identifier's hex digest (40 in the archive)
DigestLen == 4
\* longest history sequence of the by-hash specification
MaxHashN == 3
\* longest history sequence of the by-page specification
MaxPageN == 5
\* RevisionHistoryShardByPage.PAGE_SIZE, scaled down from the source's 10_000
PAGE_SIZE == 2
\* largest sharding depth and prefix length of conf["sharding"]
MaxDepth == 3
MaxLength == 2
\* most times the direntry cache entry of one node is set in a behaviour
MaxSets == 3
\* most population tasks spawned in a behaviour
MaxTasks == 2
\* deepest by-page node that is listed (0: the by-page root, 1: a page)
MaxPageNest == 1
\* most entries of the tree that is listed
MaxEntries == 2
\* longest history sequence of the by-date specifications
MaxHist == 2
\* most tags on a chain of tags, the tag that is listed included
MaxChain == 3
\* most parents of the commit that is listed
MaxParents == 3

(***************************************************************************)
(* Text helpers (Python str operations)                                    *)
(***************************************************************************)
Min(a, b) == IF a <= b THEN a ELSE b

\* s[i:j] for 0 <= i <= j
Slice(s, i, j) == SubSeq(s, i + 1, Min(j, Len(s)))

\* s.count(ch)
Count(ch, s) == Cardinality({k \in 1..Len(s) : s[k] = ch})

\* a slip: the prefix compared without its last "/"
StartsWithStem(s, p) ==
  LET q == IF p # <<>> /\ p[Len(p)] = "/" THEN SubSeq(p, 1, Len(p) - 1) ELSE p
  IN Len(q) <= Len(s) /\ SubSeq(s, 1, Len(q)) = q

\* s.startswith(p)
StartsWith(s, p) == Len(p) <= Len(s) /\ SubSeq(s, 1, Len(p)) = p

\* s.replace(ch, "")
RECURSIVE Remove(_, _)
Remove(ch, s) ==
  IF s = <<>> THEN <<>>
  ELSE IF Head(s) = ch THEN Remove(ch, Tail(s))
  ELSE <<Head(s)>> \o Remove(ch, Tail(s))

\* s.split("/")
RECURSIVE SplitAcc(_, _, _)
SplitAcc(s, cur, acc) ==
  IF s = <<>> THEN Append(acc, cur)
  ELSE IF Head(s) = "/" THEN SplitAcc(Tail(s), <<>>, Append(acc, cur))
  ELSE SplitAcc(Tail(s), Append(cur, Head(s)), acc)

Split(s) == SplitAcc(s, <<>>, <<>>)

\* str(Path(*parts)) for relative parts: empty parts are dropped, the others
\* joined by "/"
RECURSIVE PathJoin(_)
PathJoin(parts) ==
  IF parts = <<>> THEN <<>>
  ELSE LET rest == PathJoin(Tail(parts))
       IN IF Head(parts) = <<>> THEN rest
          ELSE IF rest = <<>> THEN Head(parts)
          ELSE Head(parts) \o <<"/">> \o rest

DigitChar == <<"0", "1", "2", "3", "4", "5", "6", "7", "8", "9">>

\* f"{n:0{w}d}" for n >= 0
RECURSIVE Digits(_, _)
Digits(n, w) ==
  IF n < 10 /\ w <= 1 THEN <<DigitChar[n + 1]>>
  ELSE Append(Digits(n \div 10, w - 1), DigitChar[(n % 10) + 1])

\* the elements of a sequence
Range(s) == {s[k] : k \in 1..Len(s)}

\* the sequences without repetition of at most n elements of S
InjSeqs(S, n) ==
  {q \in UNION {[1..k -> S] : k \in 0..n} :
     \A i, j \in 1..Len(q) : i # j => q[i] # q[j]}

\* the empty map
NoMap == [x \in {} |-> <<>>]

\* prefetch = None, and prefetch = {"length": n}
NoPrefetch == [known |-> FALSE, length |-> 0]
Prefetched(n) == [known |-> TRUE, length |-> n]

(***************************************************************************)
(* Identifiers                                                             *)
(***************************************************************************)
Hex == {"a", "b"}

\* the commit identifiers of the model: object_id values, hex digests
Commits ==
  {d \in [1..DigestLen -> Hex] : Cardinality({k \in 1..DigestLen : d[k] = "b"}) <= 1}

\* str(swhid) of a commit
SwhidStr(object_id) ==
  <<"s", "w", "h", ":", "1", ":", "r", "e", "v", ":">> \o object_id

(***************************************************************************)
(* Entries and nodes                                                       *)
(***************************************************************************)
\* int(EntryMode.RDONLY_DIR): S_IFDIR | 0o555
RDONLY_DIR == 16749

\* create_child(FuseSymlinkEntry, name=..., target=...)
SymlinkEntry(name, target) ==
  [cls |-> "FuseSymlinkEntry", name |-> name, mode |-> 0, target |-> target,
   prefix |-> <<>>]

\* create_child(<a shard directory class>, name=..., mode=int(EntryMode.RDONLY_DIR),
\* prefix=...)
ShardEntry(cls, name, prefix) ==
  [cls |-> cls, name |-> name, mode |-> RDONLY_DIR, target |-> <<>>,
   prefix |-> prefix]

\* a directory node, as the direntry cache keys it: its shard view and its
\* partition path below the root of that view
Node(kind, prefix) == [kind |-> kind, prefix |-> prefix]

RECURSIVE Repeat(_, _)
Repeat(s, n) == IF n <= 0 THEN <<>> ELSE s \o Repeat(s, n - 1)

\* get_relative_root_path() of a shard node: one "../" per level between the
\* node and the mount root (archive/<swhid>/history/<view>/<prefix>)
RootPath(prefix) == Repeat(<<".", ".", "/">>, 4 + Count("/", prefix))

\* Path(root_path, f"archive/{swhid}")
ArchiveTarget(root_path, object_id) ==
  root_path \o <<"a", "r", "c", "h", "i", "v", "e", "/">> \o SwhidStr(object_id)

\* the distinct elements of a sequence, in order of first occurrence (the key
\* order of a dict filled by setdefault)
RECURSIVE FirstOccurrences(_, _)
FirstOccurrences(s, seen) ==
  IF s = <<>> THEN <<>>
  ELSE IF Head(s) \in seen THEN FirstOccurrences(Tail(s), seen)
  ELSE <<Head(s)>> \o FirstOccurrences(Tail(s), seen \cup {Head(s)})

(***************************************************************************)
(* RevisionHistoryShardByHash                                              *)
(***************************************************************************)
get_full_sharded_name(object_id, cf) ==
  IF cf.depth <= 0 THEN SwhidStr(object_id)
  ELSE PathJoin([k \in 1..cf.depth |->
                   Slice(object_id, (k - 1) * cf.length, k * cf.length)]
                \o <<SwhidStr(object_id)>>)

\* a slip: the label cut from the digest at the prefix's length, separators
\* counted
NextPrefixFromDigest(object_id, prefix, cf) ==
  Slice(object_id, Len(prefix), Len(prefix) + cf.length)

\* name[prefix_len : prefix_len + sharding_length]
NextPrefix(object_id, prefix, cf) ==
  Slice(get_full_sharded_name(object_id, cf), Len(prefix), Len(prefix) + cf.length)

\* the leaves of a node at the sharding depth
ByHashLeaves(prefix, swhids) ==
  [k \in 1..Len(swhids) |->
     SymlinkEntry(SwhidStr(swhids[k]), ArchiveTarget(RootPath(prefix), swhids[k]))]

\* fill_direntry_cache(swhids) on the node of `prefix`: the children returned,
\* the direntry cache entries set (node -> children), and whether the call
\* raised.  A node deeper than the sharding depth with identifiers left never
\* reaches the depth test again and recurses until RecursionError; the
\* entries set before the error stay set.
RECURSIVE ByHashFill(_, _, _), ByHashSubdirs(_, _, _, _, _)
ByHashFill(prefix, swhids, cf) ==
  LET depth == Count("/", prefix) IN
  IF depth = cf.depth THEN
    LET children == ByHashLeaves(prefix, swhids)
    IN [raised |-> FALSE, children |-> children,
        sets |-> (Node("by-hash", prefix) :> children)]
  ELSE IF depth > cf.depth /\ swhids # <<>> THEN
    [raised |-> TRUE, children |-> <<>>, sets |-> NoMap]
  ELSE
    LET keys == FirstOccurrences(
                  [k \in 1..Len(swhids) |-> NextPrefix(swhids[k], prefix, cf)], {})
        r == ByHashSubdirs(prefix, keys, swhids, cf,
                           [raised |-> FALSE, children |-> <<>>, sets |-> NoMap])
    IN IF r.raised THEN r
       ELSE [raised |-> FALSE, children |-> r.children,
             sets |-> (Node("by-hash", prefix) :> r.children) @@ r.sets]

\* the loop over subdirs.items(): one child per key, filled recursively
ByHashSubdirs(prefix, keys, swhids, cf, acc) ==
  IF keys = <<>> \/ acc.raised THEN acc
  ELSE
    LET subdir == Head(keys)
        child_prefix == prefix \o subdir \o <<"/">>
        InSubdir(s) == NextPrefix(s, prefix, cf) = subdir
        r == ByHashFill(child_prefix, SelectSeq(swhids, InSubdir), cf)
    IN ByHashSubdirs(prefix, Tail(keys), swhids, cf,
         [raised |-> r.raised,
          children |-> Append(acc.children,
                         ShardEntry("RevisionHistoryShardByHash", subdir, child_prefix)),
          sets |-> r.sets @@ acc.sets])

\* a slip: the whole history materialized, unfiltered
ByHashComputeAll(prefix, hist, cf) == ByHashFill(prefix, hist, cf)

\* compute_entries: the history filtered by the node's digest prefix, then
\* materialized
ByHashCompute(prefix, hist, cf) ==
  LET hash_prefix == Remove("/", prefix)
      Match(s) == StartsWith(s, hash_prefix)
  IN ByHashFill(prefix, SelectSeq(hist, Match), cf)

(***************************************************************************)
(* RevisionHistoryShardByPage                                              *)
(***************************************************************************)
\* PAGE_FMT.format(page_number=n)
PAGE_FMT(page_number) == Digits(page_number, 3)

\* page = None
NoPage == <<"None">>

\* a slip: a page object that tests false, so that no page is ever stored
HasPageNever(page) == FALSE

\* if page:
HasPage(page) == page # NoPage

\* the loop of fill_direntry_cache, from index idx on.  page is the prefix of
\* the page being filled, or NoPage before the first page
RECURSIVE ByPageLoop(_, _, _, _, _, _, _, _)
ByPageLoop(self, swhids, idx, page_number, page, page_children, pages, sets) ==
  IF idx >= Len(swhids) THEN
    LET last == HasPage(page)
        pages2 == IF last
                  THEN Append(pages, ShardEntry("RevisionHistoryShardByPage",
                                                PAGE_FMT(page_number), page))
                  ELSE pages
        sets2 == IF last THEN (Node("by-page", page) :> page_children) @@ sets
                 ELSE sets
    IN [children |-> pages2, sets |-> (Node("by-page", self) :> pages2) @@ sets2]
  ELSE
    LET new == idx % PAGE_SIZE = 0
        flush == new /\ HasPage(page)
        pages2 == IF flush
                  THEN Append(pages, ShardEntry("RevisionHistoryShardByPage",
                                                PAGE_FMT(page_number), page))
                  ELSE pages
        sets2 == IF flush THEN (Node("by-page", page) :> page_children) @@ sets
                 ELSE sets
        number2 == IF new THEN page_number + 1 ELSE page_number
        page2 == IF new THEN self \o PAGE_FMT(number2) \o <<"/">> ELSE page
        children2 == IF new THEN <<>> ELSE page_children
        link == SymlinkEntry(SwhidStr(swhids[idx + 1]),
                             ArchiveTarget(RootPath(page2), swhids[idx + 1]))
    IN ByPageLoop(self, swhids, idx + 1, number2, page2, Append(children2, link),
                  pages2, sets2)

\* fill_direntry_cache(swhids) on the node of prefix `self`: the pages
\* returned and the direntry cache entries set
ByPageFill(self, swhids) ==
  ByPageLoop(self, swhids, 0, -1, NoPage, <<>>, <<>>, NoMap)

\* compute_entries
ByPageCompute(self, hist) == ByPageFill(self, hist)

(***************************************************************************)
(* State                                                                   *)
(***************************************************************************)
VARIABLES
  history,    \* get_history(swhid): the commit's ancestors, most recent first
  conf,       \* fuse.conf["sharding"]: [depth, length]
  upstream,   \* the archive: commit -> the date of its metadata record
  tree,       \* the archive: the entry list of the tree that is listed
  metadata,   \* fuse.cache.metadata: the commits whose record is cached
  direntry,   \* fuse.cache.direntry: node -> children, for the nodes set
  nset,       \* node -> how many times direntry.set was called on that node
  is_status_done, \* by-date node (its prefix) -> its is_status_done field
  tasks,      \* the tasks spawned by asyncio.create_task, in spawn order
  prefetch,   \* Content.prefetch of the blob entry that is read
  req         \* the listing requests: lister -> its compute_entries call

vars ==
  <<history, conf, upstream, tree, metadata, direntry, nset, is_status_done,
    tasks, prefetch, req>>

\* what the archive holds and the configuration, read and never written, and
\* the blob entry's field, which no listing writes
data == <<history, conf, upstream, tree, prefetch>>

\* the callers that list directories
Listers == {"l1", "l2", "l3"}

\* a lister with no call in progress.  cached0 and failed0 are history
\* variables: the content of the metadata cache when the call began, and
\* whether a population task had failed by then.  For a call on a blob entry,
\* fetches counts its get_blob calls, result is the number it returned, and
\* known0 and after0 are history variables: whether prefetch was set when the
\* call began, and whether a size() call had returned by then
Idle ==
  [pc |-> "idle", kind |-> "none", prefix |-> <<>>, i |-> 0, nb_entries |-> 0,
   subdirs |-> {}, pending |-> <<>>, out |-> <<>>, cached0 |-> {},
   failed0 |-> FALSE, fetches |-> 0, result |-> 0, known0 |-> FALSE,
   after0 |-> FALSE]

\* the sharding configurations
Confs == [depth : 0..MaxDepth, length : 1..MaxLength]

\* direntry.set on the nodes of `sets`.  The nodes a fill creates are new
\* objects, set for the first time; `self` (when the node listed already
\* existed) is set once more.
SetCount(sets, self) ==
  [n \in DOMAIN sets |-> IF n = self /\ n \in DOMAIN nset THEN nset[n] + 1 ELSE 1]
  @@ nset

NoSelf == Node("none", <<>>)

(***************************************************************************)
(* RevisionHistory.compute_entries                                         *)
(***************************************************************************)
\* a slip: by_date is yielded and no task is created
HistoryBeginNoTask(l) ==
  /\ req[l].pc = "idle"
  /\ req' = [req EXCEPT ![l] =
       [Idle EXCEPT !.pc = "run", !.kind = "history", !.i = 1,
          !.out = <<ShardEntry("RevisionHistoryShardByDate",
                               <<"b", "y", "-", "d", "a", "t", "e">>, <<>>)>>]]
  /\ UNCHANGED <<data, metadata, direntry, nset, is_status_done, tasks>>

\* history = await get_history(); by_date is created, the population task
\* spawned and by_date yielded
HistoryBegin(l) ==
  /\ req[l].pc = "idle"
  /\ Len(tasks) < MaxTasks
  /\ tasks' = Append(tasks, [swhids |-> history, i |-> 1,
                             state |-> IF history = <<>> THEN "done" ELSE "running"])
  /\ req' = [req EXCEPT ![l] =
       [Idle EXCEPT !.pc = "run", !.kind = "history", !.i = 1,
          !.out = <<ShardEntry("RevisionHistoryShardByDate",
                               <<"b", "y", "-", "d", "a", "t", "e">>, <<>>)>>]]
  /\ UNCHANGED <<data, metadata, direntry, nset, is_status_done>>

\* by_hash is created, by_hash.fill_direntry_cache(history), by_hash yielded
HistoryByHash(l) ==
  /\ req[l].pc = "run" /\ req[l].kind = "history" /\ req[l].i = 1
  /\ LET r == ByHashFill(<<>>, history, conf) IN
     /\ direntry' = r.sets @@ direntry
     /\ nset' = SetCount(r.sets, NoSelf)
     /\ req' = [req EXCEPT ![l] =
          IF r.raised THEN [@ EXCEPT !.pc = "raised"]
          ELSE [@ EXCEPT !.i = 2,
                  !.out = Append(@, ShardEntry("RevisionHistoryShardByHash",
                                   <<"b", "y", "-", "h", "a", "s", "h">>, <<>>))]]
  /\ UNCHANGED <<data, metadata, is_status_done, tasks>>

\* by_page is created, by_page.fill_direntry_cache(history), by_page yielded
HistoryByPage(l) ==
  /\ req[l].pc = "run" /\ req[l].kind = "history" /\ req[l].i = 2
  /\ LET r == ByPageFill(<<>>, history) IN
     /\ direntry' = r.sets @@ direntry
     /\ nset' = SetCount(r.sets, NoSelf)
     /\ req' = [req EXCEPT ![l] =
          [@ EXCEPT !.pc = "done",
             !.out = Append(@, ShardEntry("RevisionHistoryShardByPage",
                              <<"b", "y", "-", "p", "a", "g", "e">>, <<>>))]]
  /\ UNCHANGED <<data, metadata, is_status_done, tasks>>

(***************************************************************************)
(* Listing a by-hash or by-page node                                       *)
(***************************************************************************)
\* RevisionHistoryShardByHash.compute_entries on node n, up to its first yield
ListByHash(l, n) ==
  /\ req[l].pc = "idle"
  /\ n \in DOMAIN direntry /\ n.kind = "by-hash"
  /\ nset[n] < MaxSets
  /\ LET r == ByHashCompute(n.prefix, history, conf) IN
     /\ direntry' = r.sets @@ direntry
     /\ nset' = SetCount(r.sets, n)
     /\ req' = [req EXCEPT ![l] =
          [Idle EXCEPT !.kind = "by-hash", !.prefix = n.prefix,
             !.pc = IF r.raised THEN "raised"
                    ELSE IF r.children = <<>> THEN "done" ELSE "run",
             !.pending = r.children]]
  /\ UNCHANGED <<data, metadata, is_status_done, tasks>>

\* RevisionHistoryShardByPage.compute_entries on node n, up to its first yield
ListByPage(l, n) ==
  /\ req[l].pc = "idle"
  /\ n \in DOMAIN direntry /\ n.kind = "by-page"
  /\ nset[n] < MaxSets
  /\ Count("/", n.prefix) <= MaxPageNest
  /\ LET r == ByPageCompute(n.prefix, history) IN
     /\ direntry' = r.sets @@ direntry
     /\ nset' = SetCount(r.sets, n)
     /\ req' = [req EXCEPT ![l] =
          [Idle EXCEPT !.kind = "by-page", !.prefix = n.prefix,
             !.pc = IF r.children = <<>> THEN "done" ELSE "run",
             !.pending = r.children]]
  /\ UNCHANGED <<data, metadata, is_status_done, tasks>>

\* a slip: the children are popped from the cached list, which the listings
\* of a node share
YieldChildShared(l) ==
  /\ req[l].pc = "run" /\ req[l].kind \in {"by-hash", "by-page"}
  /\ LET n == Node(req[l].kind, req[l].prefix)
         rest == direntry[n]
     IN
     /\ direntry' = [direntry EXCEPT ![n] = IF rest = <<>> THEN <<>> ELSE Tail(rest)]
     /\ req' = [req EXCEPT ![l] =
          IF rest = <<>> THEN [@ EXCEPT !.pc = "done"]
          ELSE [@ EXCEPT !.out = Append(@, Head(rest)),
                         !.pc = IF Tail(rest) = <<>> THEN "done" ELSE "run"]]
  /\ UNCHANGED <<data, metadata, nset, is_status_done, tasks>>

\* for entry in self.fill_direntry_cache(...): yield entry
YieldChild(l) ==
  /\ req[l].pc = "run" /\ req[l].kind \in {"by-hash", "by-page"}
  /\ req' = [req EXCEPT ![l] =
       [@ EXCEPT !.out = Append(@, Head(req[l].pending)),
                 !.pending = Tail(@),
                 !.pc = IF Tail(req[l].pending) = <<>> THEN "done" ELSE "run"]]
  /\ UNCHANGED <<data, metadata, direntry, nset, is_status_done, tasks>>

(***************************************************************************)
(* RevisionHistoryShardByDate                                              *)
(***************************************************************************)
\* int(EntryMode.RDONLY_FILE): S_IFREG | 0o444
RDONLY_FILE == 33060

\* the dates of the commits' metadata records
Dates ==
  {[year |-> 2020, month |-> 1, day |-> 5], [year |-> 2020, month |-> 1, day |-> 17],
   [year |-> 2020, month |-> 11, day |-> 5], [year |-> 2021, month |-> 1, day |-> 5]}

\* get_full_sharded_name(meta): f"{date.year:04d}/{date.month:02d}/{date.day:02d}"
ByDateShardedName(date) ==
  Digits(date.year, 4) \o <<"/">> \o Digits(date.month, 2) \o <<"/">>
  \o Digits(date.day, 2)

\* create_child(RevisionHistoryShardByDate.StatusFile, done=..., todo=...)
StatusFile(done, todo) ==
  [cls |-> "StatusFile", name |-> <<".", "s", "t", "a", "t", "u", "s">>,
   mode |-> RDONLY_FILE, target |-> <<>>, prefix |-> <<>>, done |-> done,
   todo |-> todo]

\* the by-date nodes a listing of the by-date tree can have created so far:
\* the root, yielded by history/, and one node per year, month and day of a
\* commit that a by-date listing found in the metadata cache
ByDateNodes ==
  (IF \E l \in Listers : req[l].kind = "history" THEN {<<>>} ELSE {})
  \cup UNION {
    LET parts == Split(ByDateShardedName(upstream[c]))
    IN {parts[1] \o <<"/">>,
        parts[1] \o <<"/">> \o parts[2] \o <<"/">>,
        parts[1] \o <<"/">> \o parts[2] \o <<"/">> \o parts[3] \o <<"/">>}
    : c \in Range(history) \cap metadata}

\* a slip: the status file yielded at the end of every listing
ByDateEndAlways(r, status_done) ==
  [r EXCEPT !.pc = "done",
            !.out = Append(@, StatusFile(r.nb_entries, Len(history)))]

\* the end of compute_entries: the status file is yielded unless the node's
\* is_status_done is set
ByDateEnd(r, status_done) ==
  [r EXCEPT !.pc = "done",
            !.out = IF status_done THEN @
                    ELSE Append(@, StatusFile(r.nb_entries, Len(history)))]

\* history = await get_history(); is_status_done = True; the loop begins (and
\* ends at once on an empty history)
ByDateBegin(l, prefix) ==
  /\ req[l].pc = "idle"
  /\ prefix \in ByDateNodes
  /\ is_status_done' = (prefix :> TRUE) @@ is_status_done
  /\ LET r == [Idle EXCEPT !.pc = "run", !.kind = "by-date", !.prefix = prefix,
                           !.i = 1, !.cached0 = metadata,
                           !.failed0 = \E t \in 1..Len(tasks) :
                                          tasks[t].state = "failed"]
     IN req' = [req EXCEPT ![l] = IF history = <<>> THEN ByDateEnd(r, TRUE) ELSE r]
  /\ UNCHANGED <<data, metadata, direntry, nset, tasks>>

\* a slip: get_metadata in the place of the probe, which fetches and caches
FetchMetadata(cache, object_id) ==
  [hit |-> TRUE, cache |-> cache \cup {object_id}]

\* meta = await self.fuse.cache.metadata.get(swhid): whether a record is
\* cached, and the cache after the call
ProbeMetadata(cache, object_id) ==
  [hit |-> object_id \in cache, cache |-> cache]

\* a slip: the year taken at every depth
FirstDatePart(name, depth) == Split(name)[1]

\* name.split("/")[depth]
NextDatePart(name, depth) == Split(name)[depth + 1]

\* one turn of the loop: meta = await cache.metadata.get(swhid), then the
\* turn's work up to the next await (after the last turn, up to the end);
\* name.split("/")[depth] raises IndexError when the name has no such part
ByDateProbe(l) ==
  /\ req[l].pc = "run" /\ req[l].kind = "by-date"
  /\ LET r == req[l]
         swhid == history[r.i]
         probe == ProbeMetadata(metadata, swhid)
         hit == probe.hit
         depth == Count("/", r.prefix)
         name == ByDateShardedName(upstream[swhid])
         listed == hit /\ StartsWith(name, r.prefix)
         raises == listed /\ depth >= Len(Split(name))
         next_prefix == NextDatePart(name, depth)
         new == listed /\ ~raises /\ next_prefix \notin r.subdirs
         r2 == [r EXCEPT
                  !.i = @ + 1,
                  !.nb_entries = IF hit THEN @ + 1 ELSE @,
                  !.subdirs = IF new THEN @ \cup {next_prefix} ELSE @,
                  !.out = IF new
                          THEN Append(@, ShardEntry("RevisionHistoryShardByDate",
                                           next_prefix,
                                           r.prefix \o next_prefix \o <<"/">>))
                          ELSE @]
         flag == IF hit THEN is_status_done[r.prefix] ELSE FALSE
     IN
     /\ metadata' = probe.cache
     /\ is_status_done' = [is_status_done EXCEPT ![r.prefix] = flag]
     /\ req' = [req EXCEPT ![l] =
          IF raises THEN [r EXCEPT !.pc = "raised", !.nb_entries = @ + 1]
          ELSE IF r.i = Len(history) THEN ByDateEnd(r2, flag) ELSE r2]
  /\ UNCHANGED <<data, direntry, nset, tasks>>

(***************************************************************************)
(* The population task and other fetches of commit metadata                *)
(***************************************************************************)
\* get_metadata(swhid) caches the record it fetched
get_metadata(cache, object_id) == cache \cup {object_id}

\* a slip: the task returns after its first fetch
TaskStepOnce(t) ==
  /\ t \in 1..Len(tasks)
  /\ tasks[t].state = "running"
  /\ metadata' = get_metadata(metadata, tasks[t].swhids[tasks[t].i])
  /\ tasks' = [tasks EXCEPT ![t] = [@ EXCEPT !.i = @ + 1, !.state = "done"]]
  /\ UNCHANGED <<data, direntry, nset, is_status_done, req>>

\* fill_metadata_cache: one turn of "for swhid in swhids: await
\* get_metadata(swhid)"
TaskStep(t) ==
  /\ t \in 1..Len(tasks)
  /\ tasks[t].state = "running"
  /\ metadata' = get_metadata(metadata, tasks[t].swhids[tasks[t].i])
  /\ tasks' = [tasks EXCEPT ![t] =
       [@ EXCEPT !.i = @ + 1,
                 !.state = IF tasks[t].i = Len(tasks[t].swhids) THEN "done"
                           ELSE "running"]]
  /\ UNCHANGED <<data, direntry, nset, is_status_done, req>>

\* get_metadata raises in the task: the task ends, nobody awaits it
TaskFail(t) ==
  /\ t \in 1..Len(tasks)
  /\ tasks[t].state = "running"
  /\ tasks' = [tasks EXCEPT ![t] = [@ EXCEPT !.state = "failed"]]
  /\ UNCHANGED <<data, metadata, direntry, nset, is_status_done, req>>

\* another request fetches the metadata of commit c: Revision.compute_entries
\* on archive/<c>
Fetch(c) ==
  /\ c \in Range(history) \ metadata
  /\ metadata' = get_metadata(metadata, c)
  /\ UNCHANGED <<data, direntry, nset, is_status_done, tasks, req>>

(***************************************************************************)
(* Directory.compute_entries                                               *)
(***************************************************************************)
\* DentryPerms: content, symlink, directory, revision
PermsContent == 33188
PermsSymlink == 40960
PermsDirectory == 16384
PermsRevision == 57344

\* the object ids of the targets in the tree that is listed
TargetIds == {<<"a", "a">>, <<"a", "b">>}

\* get_blob(swhid): the bytes the archive holds for a blob
get_blob(object_id) ==
  IF object_id = <<"a", "a">> THEN <<"l", "i", "b", "/", "x">> ELSE <<>>

\* the entries a tree's metadata can hold
TreeEntries ==
  [target : [object_type : {"content", "directory", "revision", "release", "snapshot"},
             object_id : TargetIds],
   perms : {PermsContent, PermsSymlink, PermsDirectory, PermsRevision}]

\* entry["name"]: the k-th entry's name (names are unique in a tree)
EntryName(k) == <<"f", DigitChar[k + 1]>>

\* create_child(Content | Directory, name=..., mode=..., swhid=..., prefetch=...)
ArtifactEntry(cls, name, mode, swhid, entry) ==
  [cls |-> cls, name |-> name, mode |-> mode, target |-> <<>>, prefix |-> <<>>,
   swhid |-> swhid, prefetch |-> entry]

\* Path(self.get_relative_root_path(), f"archive/{swhid}") in a tree listed at
\* archive/<swhid>
SubmoduleTarget(swhid) ==
  <<".", ".", "/", "a", "r", "c", "h", "i", "v", "e", "/">>
  \o <<"s", "w", "h", ":", "1", ":", "r", "e", "v", ":">> \o swhid.object_id

\* a slip: the recorded bits used for every child
EntryModeRaw(entry) == entry.perms

\* mode: the read-only directory mode for a tree target, else the recorded bits
EntryMode(entry) ==
  IF entry.target.object_type = "directory" THEN RDONLY_DIR ELSE entry.perms

\* a slip: the last branch taken as the submodule branch, without a test
EntryBranchLenient(entry) ==
  IF entry.target.object_type = "content" THEN "file"
  ELSE IF entry.target.object_type = "directory" THEN "directory"
  ELSE IF EntryMode(entry) = PermsSymlink THEN "symlink"
  ELSE "submodule"

\* a slip: a commit target taken as an ordinary subdirectory
EntryBranchNoSubmodule(entry) ==
  IF entry.target.object_type \in {"content"} THEN "file"
  ELSE IF entry.target.object_type \in {"directory", "revision"} THEN "directory"
  ELSE IF EntryMode(entry) = PermsSymlink THEN "symlink"
  ELSE "unknown"

\* the branch of the if / elif chain an entry takes
EntryBranch(entry) ==
  IF entry.target.object_type = "content" THEN "file"
  ELSE IF entry.target.object_type = "directory" THEN "directory"
  ELSE IF EntryMode(entry) = PermsSymlink THEN "symlink"
  ELSE IF entry.target.object_type = "revision" THEN "submodule"
  ELSE "unknown"

\* metadata = await get_metadata(self.swhid)
DirectoryBegin(l) ==
  /\ req[l].pc = "idle"
  /\ tree # <<>>
  /\ req' = [req EXCEPT ![l] =
       [Idle EXCEPT !.pc = "run", !.kind = "directory", !.i = 1]]
  /\ UNCHANGED <<data, metadata, direntry, nset, is_status_done, tasks>>

\* one turn of the loop over metadata: the entry is classified, what its
\* branch awaits is fetched (fetched: whether that fetch succeeds) and its
\* child is yielded
DirectoryEntry(l, fetched) ==
  /\ req[l].pc = "run" /\ req[l].kind = "directory"
  /\ LET k == req[l].i
         entry == tree[k]
         swhid == entry.target
         branch == EntryBranch(entry)
         awaits == branch \in {"symlink", "submodule"}
         child ==
           CASE branch = "file" ->
                  ArtifactEntry("Content", EntryName(k), EntryMode(entry), swhid,
                                entry)
             [] branch = "directory" ->
                  ArtifactEntry("Directory", EntryName(k), EntryMode(entry), swhid,
                                <<>>)
             [] branch = "symlink" ->
                  SymlinkEntry(EntryName(k), get_blob(swhid.object_id))
             [] OTHER ->
                  SymlinkEntry(EntryName(k), SubmoduleTarget(swhid))
         raises == branch = "unknown" \/ (awaits /\ ~fetched)
     IN
     /\ awaits \/ fetched
     /\ metadata' = IF branch = "submodule" /\ fetched
                    THEN get_metadata(metadata, swhid.object_id) ELSE metadata
     /\ req' = [req EXCEPT ![l] =
          IF raises THEN [@ EXCEPT !.pc = "raised"]
          ELSE [@ EXCEPT !.out = Append(@, child),
                         !.i = k + 1,
                         !.pc = IF k = Len(tree) THEN "done" ELSE "run"]]
  /\ UNCHANGED <<data, direntry, nset, is_status_done, tasks>>

(***************************************************************************)
(* Release                                                                 *)
(***************************************************************************)
\* an identifier of the given kind
Swhid(object_type, object_id) == [object_type |-> object_type, object_id |-> object_id]

\* str(swhid)
SwhidText(swhid) ==
  <<"s", "w", "h", ":", "1", ":">>
  \o (CASE swhid.object_type = "content" -> <<"c", "n", "t">>
        [] swhid.object_type = "directory" -> <<"d", "i", "r">>
        [] swhid.object_type = "revision" -> <<"r", "e", "v">>
        [] swhid.object_type = "release" -> <<"r", "e", "l">>
        [] OTHER -> <<"s", "n", "p">>)
  \o <<":">> \o swhid.object_id

\* the k-th tag of a chain; the first is the release that is listed
Tag(k) == Swhid("release", <<"t", DigitChar[k + 1]>>)

\* get_relative_root_path() of an artifact listed at archive/<swhid>
ArtifactRootPath == <<".", ".", "/">>

\* Path(root_path, f"archive/{swhid}") and Path(root_path, f"meta/{swhid}.json")
ArchivePath(root_path, swhid) ==
  root_path \o <<"a", "r", "c", "h", "i", "v", "e", "/">> \o SwhidText(swhid)

MetaPath(root_path, swhid) ==
  root_path \o <<"m", "e", "t", "a", "/">> \o SwhidText(swhid)
  \o <<".", "j", "s", "o", "n">>

\* create_child(ReleaseType, name="target_type", mode=int(EntryMode.RDONLY_FILE),
\* target_type=target.object_type)
ReleaseTypeEntry(target_type) ==
  [cls |-> "ReleaseType", name |-> <<"t", "a", "r", "g", "e", "t", "_", "t", "y", "p", "e">>,
   mode |-> RDONLY_FILE, target |-> <<>>, prefix |-> <<>>, target_type |-> target_type]

NoSwhid == Swhid("none", <<>>)

\* a slip: a tag's target is not followed
FindRootNoTag(swhid, archive) ==
  CASE swhid.object_type = "revision" ->
         [awaits |-> TRUE, again |-> FALSE, value |-> archive[swhid].directory]
    [] swhid.object_type = "directory" ->
         [awaits |-> FALSE, again |-> FALSE, value |-> swhid]
    [] OTHER -> [awaits |-> FALSE, again |-> FALSE, value |-> NoSwhid]

\* one call of find_root_directory(swhid): whether it awaits get_metadata,
\* whether it calls itself again (on `value`), or else the value it returns
FindRoot(swhid, archive) ==
  CASE swhid.object_type = "release" ->
         [awaits |-> TRUE, again |-> TRUE, value |-> archive[swhid].target]
    [] swhid.object_type = "revision" ->
         [awaits |-> TRUE, again |-> FALSE, value |-> archive[swhid].directory]
    [] swhid.object_type = "directory" ->
         [awaits |-> FALSE, again |-> FALSE, value |-> swhid]
    [] OTHER -> [awaits |-> FALSE, again |-> FALSE, value |-> NoSwhid]

\* metadata = await get_metadata(self.swhid); meta.json, target and
\* target_type are yielded; find_root_directory(target) is called
ReleaseBegin(l, fetched) ==
  /\ req[l].pc = "idle"
  /\ Tag(1) \in DOMAIN upstream
  /\ LET target == upstream[Tag(1)].target IN
     req' = [req EXCEPT ![l] =
       IF ~fetched THEN [Idle EXCEPT !.pc = "fetch-failed", !.kind = "release"]
       ELSE [Idle EXCEPT !.pc = "run", !.kind = "release", !.i = 1,
               !.pending = <<target>>,
               !.out = <<SymlinkEntry(<<"m", "e", "t", "a", ".", "j", "s", "o", "n">>,
                                      MetaPath(ArtifactRootPath, Tag(1))),
                         SymlinkEntry(<<"t", "a", "r", "g", "e", "t">>,
                                      ArchivePath(ArtifactRootPath, target)),
                         ReleaseTypeEntry(target.object_type)>>]]
  /\ metadata' = IF fetched THEN get_metadata(metadata, Tag(1).object_id) ELSE metadata
  /\ UNCHANGED <<data, direntry, nset, is_status_done, tasks>>

\* one call of find_root_directory, and after the last one the end of
\* compute_entries: root is yielded unless the value is None
ReleaseResolve(l, fetched) ==
  /\ req[l].pc = "run" /\ req[l].kind = "release"
  /\ LET swhid == req[l].pending[1]
         r == FindRoot(swhid, upstream)
     IN
     /\ r.awaits \/ fetched
     /\ metadata' = IF r.awaits /\ fetched THEN get_metadata(metadata, swhid.object_id)
                    ELSE metadata
     /\ req' = [req EXCEPT ![l] =
          IF ~fetched THEN [@ EXCEPT !.pc = "fetch-failed"]
          ELSE IF r.again THEN [@ EXCEPT !.pending = <<r.value>>, !.i = @ + 1]
          ELSE [@ EXCEPT !.pc = "done", !.pending = <<>>, !.i = @ + 1,
                  !.out = IF r.value = NoSwhid THEN @
                          ELSE Append(@, SymlinkEntry(<<"r", "o", "o", "t">>,
                                          ArchivePath(ArtifactRootPath, r.value)))]]
  /\ UNCHANGED <<data, direntry, nset, is_status_done, tasks>>

(***************************************************************************)
(* Revision and RevisionParents                                            *)
(***************************************************************************)
\* the commit that is listed
ListedRevision == Swhid("revision", [j \in 1..DigestLen |-> "b"])

\* str(n) for a number below 100
DecimalStr(n) ==
  IF n < 10 THEN <<DigitChar[n + 1]>>
  ELSE <<DigitChar[(n \div 10) + 1], DigitChar[(n % 10) + 1]>>

\* a slip: the parents numbered from 0
ParentNameFromZero(i) == DecimalStr(i)

\* name=str(i + 1), i the index enumerate gives, from 0
ParentName(i) == DecimalStr(i + 1)

\* create_child(RevisionParents, name="parents", mode=int(EntryMode.RDONLY_DIR),
\* parents=[x["id"] for x in parents])
ParentsEntry(parents) ==
  [cls |-> "RevisionParents", name |-> <<"p", "a", "r", "e", "n", "t", "s">>,
   mode |-> RDONLY_DIR, target |-> <<>>, prefix |-> <<>>, parents |-> parents]

\* get_relative_root_path() of archive/<swhid>/parents/
ParentsRootPath == <<".", ".", "/", ".", ".", "/">>

\* Revision.compute_entries: metadata = await get_metadata(self.swhid), then
\* root, meta.json, parents, parent when there is a parent, and history
RevisionList(l, fetched) ==
  /\ req[l].pc = "idle"
  /\ ListedRevision \in DOMAIN upstream
  /\ LET meta == upstream[ListedRevision]
         first == <<SymlinkEntry(<<"r", "o", "o", "t">>,
                                 ArchivePath(ArtifactRootPath, meta.directory)),
                    SymlinkEntry(<<"m", "e", "t", "a", ".", "j", "s", "o", "n">>,
                                 MetaPath(ArtifactRootPath, ListedRevision)),
                    ParentsEntry(meta.parents)>>
         parent == IF Len(meta.parents) >= 1
                   THEN <<SymlinkEntry(<<"p", "a", "r", "e", "n", "t">>,
                            <<"p", "a", "r", "e", "n", "t", "s", "/", "1", "/">>)>>
                   ELSE <<>>
         last == <<ShardEntry("RevisionHistory", <<"h", "i", "s", "t", "o", "r", "y">>,
                              <<>>)>>
     IN req' = [req EXCEPT ![l] =
          IF ~fetched THEN [Idle EXCEPT !.pc = "fetch-failed", !.kind = "revision"]
          ELSE [Idle EXCEPT !.pc = "done", !.kind = "revision",
                  !.out = first \o parent \o last]]
  /\ metadata' = IF fetched THEN get_metadata(metadata, ListedRevision.object_id)
                 ELSE metadata
  /\ UNCHANGED <<data, direntry, nset, is_status_done, tasks>>

\* RevisionParents.compute_entries on the parents entry that lister `from`
\* was given: one symlink per parent, in order
ParentsList(l, from) ==
  /\ req[l].pc = "idle"
  /\ req[from].kind = "revision" /\ req[from].pc = "done"
  /\ LET self == req[from].out[3]
         Link(i) == SymlinkEntry(ParentName(i - 1),
                                 ArchiveTarget(ParentsRootPath, self.parents[i]))
     IN req' = [req EXCEPT ![l] =
          [Idle EXCEPT !.pc = "done", !.kind = "parents",
             !.out = [i \in 1..Len(self.parents) |-> Link(i)]]]
  /\ UNCHANGED <<data, metadata, direntry, nset, is_status_done, tasks>>

(***************************************************************************)
(* Content                                                                 *)
(***************************************************************************)
\* a slip: the recorded length tested in place of the field
TruthyLength(p) == p.known /\ p.length # 0

\* `if self.prefetch`: None is false, a dict with a length key is true
Truthy(p) == p.known

\* self.swhid of the blob entry: the target of the entry the parent holds
ContentSwhid == tree[1].target

\* Content.size up to its first await: the recorded length is returned, or
\* get_content is called and its get_blob awaited
SizeCall(l) ==
  /\ req[l].pc = "idle"
  /\ LET after == \E m \in Listers : req[m].kind = "size" /\ req[m].pc = "done"
     IN req' = [req EXCEPT ![l] =
          IF Truthy(prefetch)
          THEN [Idle EXCEPT !.pc = "done", !.kind = "size", !.known0 = prefetch.known,
                            !.after0 = after, !.result = prefetch.length]
          ELSE [Idle EXCEPT !.pc = "await", !.kind = "size", !.known0 = prefetch.known,
                            !.after0 = after, !.fetches = 1]]
  /\ UNCHANGED <<data, metadata, direntry, nset, is_status_done, tasks>>

\* Content.get_content up to its await of get_blob
GetContentCall(l) ==
  /\ req[l].pc = "idle"
  /\ req' = [req EXCEPT ![l] =
       [Idle EXCEPT !.pc = "await", !.kind = "get_content",
                    !.known0 = prefetch.known, !.fetches = 1]]
  /\ UNCHANGED <<data, metadata, direntry, nset, is_status_done, tasks>>

\* get_blob returns (fetched) or raises: get_content records the length when
\* prefetch is not set and returns the bytes, of which size returns the length
BlobFetched(l, fetched) ==
  /\ req[l].pc = "await"
  /\ LET bytes == get_blob(ContentSwhid.object_id)
     IN /\ prefetch' = IF fetched /\ ~Truthy(prefetch) THEN Prefetched(Len(bytes))
                       ELSE prefetch
        /\ req' = [req EXCEPT ![l] =
             IF ~fetched THEN [@ EXCEPT !.pc = "raised"]
             ELSE [@ EXCEPT !.pc = "done", !.out = bytes, !.result = Len(bytes)]]
  /\ UNCHANGED <<history, conf, upstream, tree, metadata, direntry, nset,
                 is_status_done, tasks>>

(***************************************************************************)
(* Specification of a tree listing: every entry list of at most MaxEntries *)
(* entries                                                                 *)
(***************************************************************************)
InitDir ==
  /\ history = <<>>
  /\ conf = [depth |-> 1, length |-> 2]
  /\ upstream = NoMap
  /\ tree \in UNION {[1..k -> TreeEntries] : k \in 0..MaxEntries}
  /\ metadata = {}
  /\ is_status_done = NoMap
  /\ direntry = NoMap
  /\ nset = NoMap
  /\ tasks = <<>>
  /\ prefetch = NoPrefetch
  /\ req = [l \in Listers |-> Idle]

NextDir ==
  \/ DirectoryBegin("l1")
  \/ \E fetched \in BOOLEAN : DirectoryEntry("l1", fetched)

SpecDir == InitDir /\ [][NextDir]_vars

(***************************************************************************)
(* Specification of the by-hash view: every history sequence and sharding  *)
(* configuration; l1 lists history/, l2 lists one by-hash node             *)
(***************************************************************************)
InitHash ==
  /\ history \in InjSeqs(Commits, MaxHashN)
  /\ conf \in Confs
  /\ upstream = NoMap
  /\ tree = <<>>
  /\ metadata = {}
  /\ is_status_done = NoMap
  /\ direntry = NoMap
  /\ nset = NoMap
  /\ tasks = <<>>
  /\ prefetch = NoPrefetch
  /\ req = [l \in Listers |-> Idle]

NextHash ==
  \/ HistoryBegin("l1")
  \/ HistoryByHash("l1")
  \/ HistoryByPage("l1")
  \/ \E n \in DOMAIN direntry : ListByHash("l2", n)
  \/ YieldChild("l2")

SpecHash == InitHash /\ [][NextHash]_vars

(***************************************************************************)
(* Specification of the by-page view: every history sequence; l1 lists     *)
(* history/, l2 lists one by-page node                                     *)
(***************************************************************************)
InitPage ==
  /\ history \in InjSeqs(Commits, MaxPageN)
  /\ conf = [depth |-> 1, length |-> 2]
  /\ upstream = NoMap
  /\ tree = <<>>
  /\ metadata = {}
  /\ is_status_done = NoMap
  /\ direntry = NoMap
  /\ nset = NoMap
  /\ tasks = <<>>
  /\ prefetch = NoPrefetch
  /\ req = [l \in Listers |-> Idle]

NextPage ==
  \/ HistoryBegin("l1")
  \/ HistoryByHash("l1")
  \/ HistoryByPage("l1")
  \/ \E n \in DOMAIN direntry : ListByPage("l2", n)
  \/ YieldChild("l2")

SpecPage == InitPage /\ [][NextPage]_vars

(***************************************************************************)
(* Specification of the by-date view: every history of at most MaxHist      *)
(* commits and every dating of them; l3 lists history/, which spawns the   *)
(* population task, and l1 and l2 list by-date nodes, l1 first             *)
(***************************************************************************)
\* the k-th commit of the by-date histories
DateCommit(k) == [j \in 1..DigestLen |-> IF j = k THEN "b" ELSE "a"]

InitDate ==
  /\ history \in {[k \in 1..n |-> DateCommit(k)] : n \in 0..MaxHist}
  /\ conf = [depth |-> 1, length |-> 2]
  /\ upstream \in [Range(history) -> Dates]
  /\ tree = <<>>
  /\ metadata = {}
  /\ is_status_done = NoMap
  /\ direntry = NoMap
  /\ nset = NoMap
  /\ tasks = <<>>
  /\ prefetch = NoPrefetch
  /\ req = [l \in Listers |-> Idle]

NextDate ==
  \/ HistoryBegin("l3")
  \/ \E t \in 1..Len(tasks) : TaskStep(t)
  \/ \E t \in 1..Len(tasks) : TaskFail(t)
  \/ \E c \in Range(history) : Fetch(c)
  \/ \E prefix \in ByDateNodes : ByDateBegin("l1", prefix)
  \/ \E prefix \in ByDateNodes : req["l1"].pc # "idle" /\ ByDateBegin("l2", prefix)
  \/ \E l \in {"l1", "l2"} : ByDateProbe(l)

SpecDate == InitDate /\ [][NextDate]_vars

\* the by-date view of one history of MaxHist commits dated in two years,
\* with no failing fetch and no fetch but the task's, the event loop running
\* every task and every listing that is ready
InitDateLive ==
  /\ history = [k \in 1..MaxHist |-> DateCommit(k)]
  /\ conf = [depth |-> 1, length |-> 2]
  /\ upstream = [c \in Range(history) |->
                   IF c = DateCommit(1) THEN [year |-> 2020, month |-> 1, day |-> 5]
                   ELSE [year |-> 2021, month |-> 1, day |-> 5]]
  /\ tree = <<>>
  /\ metadata = {}
  /\ is_status_done = NoMap
  /\ direntry = NoMap
  /\ nset = NoMap
  /\ tasks = <<>>
  /\ prefetch = NoPrefetch
  /\ req = [l \in Listers |-> Idle]

NextDateLive ==
  \/ HistoryBegin("l3")
  \/ \E t \in 1..Len(tasks) : TaskStep(t)
  \/ \E prefix \in ByDateNodes : ByDateBegin("l1", prefix)
  \/ \E prefix \in ByDateNodes : req["l1"].pc # "idle" /\ ByDateBegin("l2", prefix)
  \/ \E l \in {"l1", "l2"} : ByDateProbe(l)

SpecDateLive ==
  /\ InitDateLive
  /\ [][NextDateLive]_vars
  /\ WF_vars(\E t \in 1..Len(tasks) : TaskStep(t))
  /\ \A l \in {"l1", "l2"} : WF_vars(ByDateProbe(l))

(***************************************************************************)
(* Specification of the three views together: l3 lists history/ once, which *)
(* spawns the population task and fills the by-hash and by-page trees; l1   *)
(* and l2 each list one by-date, by-hash or by-page node, l1 first; the     *)
(* task runs or fails in between                                            *)
(***************************************************************************)
Init ==
  /\ history \in {[k \in 1..n |-> DateCommit(k)] : n \in 0..MaxHist}
  /\ conf = [depth |-> 1, length |-> 1]
  /\ upstream = [c \in Range(history) |->
                   IF c = DateCommit(1) THEN [year |-> 2020, month |-> 1, day |-> 5]
                   ELSE [year |-> 2021, month |-> 1, day |-> 5]]
  /\ tree = <<>>
  /\ metadata = {}
  /\ is_status_done = NoMap
  /\ direntry = NoMap
  /\ nset = NoMap
  /\ tasks = <<>>
  /\ prefetch = NoPrefetch
  /\ req = [l \in Listers |-> Idle]

\* lister l begins to list a node, of any of the three views
Begin(l) ==
  \/ \E prefix \in ByDateNodes : ByDateBegin(l, prefix)
  \/ \E n \in DOMAIN direntry : ListByHash(l, n)
  \/ \E n \in DOMAIN direntry : ListByPage(l, n)

Next ==
  \/ HistoryBegin("l3")
  \/ HistoryByHash("l3")
  \/ HistoryByPage("l3")
  \/ \E t \in 1..Len(tasks) : TaskStep(t)
  \/ \E t \in 1..Len(tasks) : TaskFail(t)
  \/ Begin("l1")
  \/ req["l1"].pc # "idle" /\ Begin("l2")
  \/ \E l \in {"l1", "l2"} : ByDateProbe(l)
  \/ \E l \in {"l1", "l2"} : YieldChild(l)

Spec == Init /\ [][Next]_vars

(***************************************************************************)
(* Specification of the three views under every sharding configuration, on  *)
(* the empty history and on a history of one commit; the steps are those of *)
(* Spec                                                                     *)
(***************************************************************************)
InitViews ==
  /\ history \in {<<>>, <<DateCommit(1)>>}
  /\ conf \in Confs
  /\ upstream = [c \in Range(history) |-> [year |-> 2020, month |-> 1, day |-> 5]]
  /\ tree = <<>>
  /\ metadata = {}
  /\ is_status_done = NoMap
  /\ direntry = NoMap
  /\ nset = NoMap
  /\ tasks = <<>>
  /\ prefetch = NoPrefetch
  /\ req = [l \in Listers |-> Idle]

SpecViews == InitViews /\ [][Next]_vars

(***************************************************************************)
(* Specification of a tag listing: every chain of at most MaxChain tags    *)
(* that ends in a commit, a tree, a blob or a reference set; l1 and l2 list *)
(* the first tag, l1 first, and any fetch can fail                         *)
(***************************************************************************)
\* what a chain of tags can end in
ChainEnds ==
  {Swhid(t, id) : t \in {"revision", "directory", "content", "snapshot"}, id \in TargetIds}

\* the archive that holds a chain of k tags ending in `last`, the tree of a
\* final commit being `dir`
ChainArchive(k, last, dir) ==
  [x \in {Tag(j) : j \in 1..k} \cup (IF last.object_type = "revision" THEN {last} ELSE {}) |->
     IF x.object_type = "revision" THEN [directory |-> Swhid("directory", dir)]
     ELSE LET j == CHOOSE j \in 1..k : x = Tag(j)
          IN [target |-> IF j = k THEN last ELSE Tag(j + 1)]]

InitRelease ==
  /\ history = <<>>
  /\ conf = [depth |-> 1, length |-> 2]
  /\ upstream \in {ChainArchive(k, last, dir) :
                     k \in 1..MaxChain, last \in ChainEnds, dir \in TargetIds}
  /\ tree = <<>>
  /\ metadata = {}
  /\ is_status_done = NoMap
  /\ direntry = NoMap
  /\ nset = NoMap
  /\ tasks = <<>>
  /\ prefetch = NoPrefetch
  /\ req = [l \in Listers |-> Idle]

NextRelease ==
  \/ \E fetched \in BOOLEAN : ReleaseBegin("l1", fetched)
  \/ \E fetched \in BOOLEAN : req["l1"].pc # "idle" /\ ReleaseBegin("l2", fetched)
  \/ \E l \in {"l1", "l2"}, fetched \in BOOLEAN : ReleaseResolve(l, fetched)

SpecRelease == InitRelease /\ [][NextRelease]_vars

(***************************************************************************)
(* Specification of a commit listing: every list of at most MaxParents      *)
(* parents; l1 lists the commit, l2 its parents/ directory                  *)
(***************************************************************************)
InitRevision ==
  /\ history = <<>>
  /\ conf = [depth |-> 1, length |-> 2]
  /\ upstream \in {[x \in {ListedRevision} |->
                      [directory |-> Swhid("directory", dir), parents |-> ps]] :
                     dir \in TargetIds, ps \in InjSeqs(Commits, MaxParents)}
  /\ tree = <<>>
  /\ metadata = {}
  /\ is_status_done = NoMap
  /\ direntry = NoMap
  /\ nset = NoMap
  /\ tasks = <<>>
  /\ prefetch = NoPrefetch
  /\ req = [l \in Listers |-> Idle]

NextRevision ==
  \/ \E fetched \in BOOLEAN : RevisionList("l1", fetched)
  \/ ParentsList("l2", "l1")

SpecRevision == InitRevision /\ [][NextRevision]_vars

(***************************************************************************)
(* Specification of the reads of one blob entry: a blob of some bytes or of *)
(* none, created with the parent's hint or without                          *)
(***************************************************************************)
InitContent ==
  /\ history = <<>>
  /\ conf = [depth |-> 1, length |-> 2]
  /\ upstream = NoMap
  /\ tree \in {<<[target |-> Swhid("content", id), perms |-> PermsContent]>> :
                 id \in TargetIds}
  /\ metadata = {}
  /\ is_status_done = NoMap
  /\ direntry = NoMap
  /\ nset = NoMap
  /\ tasks = <<>>
  /\ prefetch \in {NoPrefetch, Prefetched(Len(get_blob(ContentSwhid.object_id)))}
  /\ req = [l \in Listers |-> Idle]

NextContent ==
  \E l \in Listers :
    \/ SizeCall(l)
    \/ GetContentCall(l)
    \/ \E fetched \in BOOLEAN : BlobFetched(l, fetched)

SpecContent == InitContent /\ [][NextContent]_vars

(***************************************************************************)
(* Reading the trees back from the direntry cache                          *)
(***************************************************************************)
ByHashRoot == Node("by-hash", <<>>)
ByPageRoot == Node("by-page", <<>>)

\* the symlinks found by listing by-hash node `prefix` recursively: for each,
\* its name, its depth and the names of the directories above it, concatenated
RECURSIVE HashWalk(_, _, _), HashWalkChildren(_, _, _)
HashWalk(prefix, dirs, depth) ==
  HashWalkChildren(direntry[Node("by-hash", prefix)], dirs, depth)

HashWalkChildren(children, dirs, depth) ==
  IF children = <<>> THEN <<>>
  ELSE LET c == Head(children)
           here == IF c.cls = "FuseSymlinkEntry"
                   THEN <<[name |-> c.name, depth |-> depth, dirs |-> dirs,
                           target |-> c.target]>>
                   ELSE HashWalk(c.prefix, dirs \o c.name, depth + 1)
       IN here \o HashWalkChildren(Tail(children), dirs, depth)

\* every directory below by-hash node `prefix` has a direntry cache entry
RECURSIVE HashTreeCached(_)
HashTreeCached(prefix) ==
  /\ Node("by-hash", prefix) \in DOMAIN direntry
  /\ \A k \in 1..Len(direntry[Node("by-hash", prefix)]) :
       LET c == direntry[Node("by-hash", prefix)][k]
       IN c.cls = "FuseSymlinkEntry" \/ HashTreeCached(c.prefix)

\* history/ has been listed as far as the by-hash view
ByHashMaterialized ==
  \E l \in Listers :
    /\ req[l].kind = "history"
    /\ req[l].pc = "raised" \/ req[l].i >= 2

\* the by-hash tree, listed recursively from its root, is the sharding of the
\* history: one symlink per identifier, at depth D, below the directories
\* named by the first D*L characters of its digest
ByHashTreeCorrect ==
  /\ \A l \in Listers : req[l].pc # "raised"
  /\ HashTreeCached(<<>>)
  /\ LET leaves == HashWalk(<<>>, <<>>, 0) IN
     /\ Len(leaves) = Len(history)
     /\ \A c \in Range(history) :
          \E k \in 1..Len(leaves) :
            /\ leaves[k].name = SwhidStr(c)
            /\ leaves[k].depth = conf.depth
            /\ leaves[k].dirs = Slice(c, 0, conf.depth * conf.length)

\* C1 (as stated): for every history of N distinct identifiers and every
\* configuration (D, L) with D >= 0, the recursive listing of the by-hash root
\* has exactly N symlinks, one per identifier, each at depth D below the
\* directories named by the first D*L hex characters of its digest.
C1_AnyConfiguration == ByHashMaterialized => ByHashTreeCorrect

\* C1 (amended): the same, for the configurations that shard within the
\* digest: D >= 0, L >= 1 and D*L at most the digest's length.
C1_ByHashSharding ==
  (ByHashMaterialized /\ conf.depth * conf.length <= DigestLen) => ByHashTreeCorrect

\* C1 witness: three identifiers sharded two levels deep into different
\* directories, and the root listed again through compute_entries
C1_Witness ==
  /\ req["l2"].kind = "by-hash" /\ req["l2"].prefix = <<>> /\ req["l2"].pc = "done"
  /\ Len(history) = 3 /\ conf.depth = 2 /\ conf.length = 2
  /\ Len(direntry[ByHashRoot]) = 2
  /\ Cardinality({HashWalk(<<>>, <<>>, 0)[k].dirs : k \in 1..3}) = 3

\* the step begins a listing of a by-hash node through compute_entries, and
\* what the listing returns is the list the cache held for the node, which
\* stays the node's list
ByHashListedAsCached ==
  \A l \in Listers :
    (req[l].pc = "idle" /\ req'[l].kind = "by-hash") =>
      LET n == Node("by-hash", req'[l].prefix) IN
      /\ req'[l].pc # "raised"
      /\ req'[l].pending = direntry[n]
      /\ direntry'[n] = direntry[n]

\* C20 (as stated): for every by-hash node of every configuration, listing it
\* through compute_entries gives the children, in names, kinds, targets and
\* order, that the cache holds for it from the ancestor's materialization.
C20_AnyConfiguration == [][ByHashListedAsCached]_vars

\* C20 (amended): the same, for the configurations that shard within the
\* digest: D*L at most the digest's length.
C20_ComputeSameAsCached ==
  [][conf.depth * conf.length <= DigestLen => ByHashListedAsCached]_vars

\* C20 witness: under a sharding of two levels of two characters, the node aa/
\* of three commits, materialized by the listing of history/, is listed
\* through compute_entries
C20_Witness ==
  /\ conf.depth = 2 /\ conf.length = 2 /\ Len(history) = 3
  /\ req["l2"].kind = "by-hash" /\ req["l2"].prefix = <<"a", "a", "/">>
  /\ Len(req["l2"].pending) = 3
  /\ nset[Node("by-hash", <<"a", "a", "/">>)] = 2
  /\ req["l2"].pending = direntry[Node("by-hash", <<"a", "a", "/">>)]

\* history/ has been listed to its end and no page has been listed through
\* its own compute_entries since
ByPageMaterialized ==
  /\ \E l \in Listers : req[l].kind = "history" /\ req[l].pc = "done"
  /\ \A l \in Listers : req[l].kind = "by-page" => req[l].prefix = <<>>

\* the symlink names of the pages, page after page
RECURSIVE PageNames(_)
PageNames(pages) ==
  IF pages = <<>> THEN <<>>
  ELSE LET ch == direntry[Node("by-page", Head(pages).prefix)]
       IN [k \in 1..Len(ch) |-> ch[k].name] \o PageNames(Tail(pages))

\* C2: by-page makes ceil(N / PAGE_SIZE) pages named 000, 001, ...; every
\* page holds PAGE_SIZE symlinks except a shorter, never empty, last one; the
\* pages hold N symlinks in all and, read in order, give the history back.
C2_ByPagePartition ==
  ByPageMaterialized =>
    LET pages == direntry[ByPageRoot]
        n == Len(history)
    IN
    /\ Len(pages) = (n + PAGE_SIZE - 1) \div PAGE_SIZE
    /\ \A k \in 1..Len(pages) :
         /\ pages[k].cls = "RevisionHistoryShardByPage"
         /\ pages[k].name = <<"0", "0", DigitChar[k]>>
         /\ Node("by-page", pages[k].prefix) \in DOMAIN direntry
         /\ LET ch == direntry[Node("by-page", pages[k].prefix)] IN
            /\ \A j \in 1..Len(ch) : ch[j].cls = "FuseSymlinkEntry"
            /\ k < Len(pages) => Len(ch) = PAGE_SIZE
            /\ k = Len(pages) => Len(ch) \in 1..PAGE_SIZE
    /\ PageNames(pages) = [k \in 1..n |-> SwhidStr(history[k])]

\* C2 witness: a history that fills two pages and leaves a shorter third one
C2_Witness ==
  /\ ByPageMaterialized
  /\ Len(history) = 2 * PAGE_SIZE + 1
  /\ Len(direntry[ByPageRoot]) = 3
  /\ Len(direntry[Node("by-page", direntry[ByPageRoot][3].prefix)]) = 1

(***************************************************************************)
(* Tree listings                                                           *)
(***************************************************************************)
\* the children a tree listing has yielded, each with the entry it came from
\* (every entry before a raise yields exactly one child, in order)
DirectoryChildren ==
  UNION {{<<tree[k], req[l].out[k]>> : k \in 1..Len(req[l].out)} :
           l \in {x \in Listers : req[x].kind = "directory"}}

\* C6: every entry whose permission bits say symbolic link, taken where the
\* claim insists, on a blob target, gives a FuseSymlinkEntry (not a Content)
\* whose target is the bytes get_blob returns for the entry's target.
C6_SymlinkBitsOnBlobGiveSymlink ==
  \A p \in DirectoryChildren :
    (p[1].perms = PermsSymlink /\ p[1].target.object_type = "content") =>
      /\ p[2].cls = "FuseSymlinkEntry"
      /\ p[2].target = get_blob(p[1].target.object_id)

\* C7: every entry whose target is a tree gives a Directory child with the
\* read-only directory mode, whatever bits the entry records.
C7_SubdirectoryMode ==
  \A p \in DirectoryChildren :
    p[1].target.object_type = "directory" =>
      /\ p[2].cls = "Directory"
      /\ p[2].mode = RDONLY_DIR
      /\ p[2].mode # p[1].perms

\* C7 witness: two subdirectory entries listed, one recorded with the archive's
\* directory bits and one with other bits
C7_Witness ==
  /\ req["l1"].pc = "done"
  /\ \E p, q \in DirectoryChildren :
       /\ p[1].target.object_type = "directory" /\ p[1].perms = PermsDirectory
       /\ q[1].target.object_type = "directory" /\ q[1].perms = PermsSymlink

\* the tree listers
DirectoryListers == {l \in Listers : req[l].kind = "directory"}

\* the entries whose target is neither a blob, a tree nor a commit and whose
\* bits do not say symbolic link
Unclassified ==
  {k \in 1..Len(tree) :
     /\ tree[k].target.object_type \notin {"content", "directory", "revision"}
     /\ tree[k].perms # PermsSymlink}

\* C15: a tree listing never gets past an entry whose target is neither blob,
\* tree nor commit and whose bits do not say symbolic link: the step that
\* reaches the entry raises and yields nothing, so no child exists for that
\* entry or a later one and the listing never completes.
C15_UnknownKindRaises ==
  /\ [](\A l \in DirectoryListers : \A k \in Unclassified :
          /\ Len(req[l].out) < k
          /\ req[l].i <= k
          /\ req[l].pc # "done")
  /\ [][\A l \in DirectoryListers :
          (req[l].pc = "run" /\ req[l].i \in Unclassified /\ req'[l] # req[l]) =>
            /\ req'[l].pc = "raised"
            /\ req'[l].out = req[l].out
            /\ req'[l].i = req[l].i]_vars

\* C15 witness: the listing has raised at a first entry of unknown kind, with
\* an ordinary file entry after it, and has yielded nothing
C15_Witness ==
  /\ Len(tree) = 2
  /\ 1 \in Unclassified
  /\ tree[2].target.object_type = "content" /\ tree[2].perms = PermsContent
  /\ req["l1"].kind = "directory" /\ req["l1"].pc = "raised"
  /\ req["l1"].i = 1 /\ req["l1"].out = <<>>

\* the entries that refer to a commit and whose bits do not say symbolic link
Submodules ==
  {k \in 1..Len(tree) :
     tree[k].target.object_type = "revision" /\ tree[k].perms # PermsSymlink}

\* C17: a child yielded for a submodule entry is a symlink to
\* <root>/archive/<commit> and not a Directory, and the commit's metadata is
\* fetched by the time the child exists; the step on a submodule entry whose
\* fetch fails raises and yields no child.
C17_SubmoduleFetchedThenSymlink ==
  /\ [](\A l \in DirectoryListers : \A k \in Submodules :
          k <= Len(req[l].out) =>
            /\ req[l].out[k].cls = "FuseSymlinkEntry"
            /\ req[l].out[k].cls # "Directory"
            /\ req[l].out[k].name = EntryName(k)
            /\ req[l].out[k].target =
                 <<".", ".", "/", "a", "r", "c", "h", "i", "v", "e", "/",
                   "s", "w", "h", ":", "1", ":", "r", "e", "v", ":">>
                 \o tree[k].target.object_id
            /\ tree[k].target.object_id \in metadata)
  /\ [][\A l \in DirectoryListers :
          (req[l].pc = "run" /\ req[l].i \in Submodules /\ req'[l] # req[l]) =>
            \/ /\ tree[req[l].i].target.object_id \in metadata'
               /\ Len(req'[l].out) = req[l].i
            \/ /\ metadata' = metadata
               /\ req'[l].pc = "raised"
               /\ req'[l].out = req[l].out]_vars

\* C17 witness: a submodule entry listed after its commit's metadata was
\* fetched by the listing itself
C17_Witness ==
  /\ req["l1"].kind = "directory" /\ req["l1"].pc = "done"
  /\ Len(tree) = 2 /\ 2 \in Submodules
  /\ tree[1].target.object_type = "content"
  /\ tree[2].perms = PermsRevision
  /\ metadata = {tree[2].target.object_id}
  /\ req["l1"].out[2].cls = "FuseSymlinkEntry"

(***************************************************************************)
(* By-date listings                                                        *)
(***************************************************************************)
\* lister l has listed a by-date node to the end
ByDateDone(l) == req[l].kind = "by-date" /\ req[l].pc = "done"

\* the status files lister l was given
StatusFiles(l) ==
  {req[l].out[k] : k \in {j \in 1..Len(req[l].out) : req[l].out[j].cls = "StatusFile"}}

\* every commit of the history has its metadata record in cache
AllCached(cache) == Range(history) \subseteq cache

\* C3: a by-date listing made while some commit of the history has no cached
\* record contains a .status file with todo = N and done <= todo, done being
\* the number of commits cached at the time of the listing (no fewer than
\* were cached when it began, no more than are cached when it ends).
C3_StatusWhileUnresolved ==
  \A l \in Listers :
    (ByDateDone(l) /\ ~AllCached(metadata)) =>
      \E f \in StatusFiles(l) :
        /\ f.todo = Len(history)
        /\ f.done <= f.todo
        /\ Cardinality(req[l].cached0 \cap Range(history)) <= f.done
        /\ f.done <= Cardinality(metadata \cap Range(history))

\* the year, month and day of a date, as the directories are named
DateParts(date) == <<Digits(date.year, 4), Digits(date.month, 2), Digits(date.day, 2)>>

\* the directories a complete by-date listing of node `prefix` must show: the
\* next calendar value of every commit whose date lies under the prefix
CalendarChildren(prefix) ==
  LET depth == Count("/", prefix)
      under == {c \in Range(history) :
                  \A j \in 1..depth :
                    j <= 3 /\ DateParts(upstream[c])[j] = Split(prefix)[j]}
  IN IF depth >= 3 THEN {} ELSE {DateParts(upstream[c])[depth + 1] : c \in under}

\* C4: a by-date listing made when every commit of the history is cached has
\* no .status file, and its directories are exactly the distinct calendar
\* values (year, month in the year, day in the month) of the commits under
\* the node's prefix: none missing, none extra, none twice.
C4_CalendarPartition ==
  \A l \in Listers :
    (ByDateDone(l) /\ AllCached(req[l].cached0)) =>
      LET out == req[l].out IN
      /\ StatusFiles(l) = {}
      /\ {out[k].name : k \in 1..Len(out)} = CalendarChildren(req[l].prefix)
      /\ Len(out) = Cardinality(CalendarChildren(req[l].prefix))
      /\ \A k \in 1..Len(out) :
           /\ out[k].cls = "RevisionHistoryShardByDate"
           /\ out[k].prefix = req[l].prefix \o out[k].name \o <<"/">>

\* C4 witness: a month listed with both commits cached, on two different days
C4_Witness ==
  \E l \in Listers :
    /\ ByDateDone(l) /\ AllCached(req[l].cached0)
    /\ Count("/", req[l].prefix) = 2
    /\ Len(req[l].out) = 2

\* the by-date listers
ByDateListers == {l \in Listers : req[l].kind = "by-date"}

\* the by-date directories lister l was given
DateDirs(l) ==
  {req[l].out[k] :
     k \in {j \in 1..Len(req[l].out) : req[l].out[j].cls = "RevisionHistoryShardByDate"}}

\* C21: no by-date listing raises or runs past the history; the node listed
\* lies at most three levels (year, month, day) below by-date/, every
\* directory yielded lies one level below the node listed and at most at the
\* day level, and a listing of a day node yields no directory, whatever the
\* metadata cache holds.
C21_ByDateDepthBounded ==
  \A l \in ByDateListers :
    /\ req[l].pc # "raised"
    /\ req[l].pc = "run" => req[l].i <= Len(history)
    /\ Count("/", req[l].prefix) <= 3
    /\ \A d \in DateDirs(l) :
         /\ Count("/", d.prefix) = Count("/", req[l].prefix) + 1
         /\ Count("/", d.prefix) <= 3
         /\ d.prefix \in ByDateNodes
    /\ Count("/", req[l].prefix) = 3 => DateDirs(l) = {}

\* C21 witness: a day node listed to its end with every commit cached, one of
\* them dated on that day: nothing was yielded
C21_Witness ==
  \E l \in ByDateListers :
    /\ req[l].pc = "done" /\ Count("/", req[l].prefix) = 3
    /\ history # <<>> /\ AllCached(req[l].cached0)
    /\ \E c \in Range(history) :
         ByDateShardedName(upstream[c]) \o <<"/">> = req[l].prefix
    /\ req[l].out = <<>>

\* C10: a step of a by-date listing leaves the metadata cache as it is, and a
\* commit whose probe misses adds nothing to the listing but the count of
\* the status file.
C10_ProbeOnly ==
  [][\A l \in Listers :
       (req'[l] # req[l] /\ req'[l].kind = "by-date") =>
         /\ metadata' = metadata
         /\ (req[l].pc = "run" /\ history[req[l].i] \notin metadata) =>
              /\ req'[l].nb_entries = req[l].nb_entries
              /\ req'[l].subdirs = req[l].subdirs
              /\ \A k \in 1..Len(req'[l].out) :
                   k > Len(req[l].out) => req'[l].out[k].cls = "StatusFile"]_vars

\* C10 witness: a listing that ended with a commit skipped and the cache
\* holding what it held when the listing began
C10_Witness ==
  \E l \in Listers :
    /\ ByDateDone(l) /\ Len(history) = 2
    /\ req[l].cached0 = metadata /\ Cardinality(metadata) = 1
    /\ Len(req[l].out) = 2

\* C5: with no failing fetch, once history/ has been listed every commit of
\* the history gets cached and stays cached; every by-date listing comes to
\* its end, those begun before that point included, without caching
\* anything itself; and a listing begun once all are cached has no .status
\* file.
C5_BackgroundFillCompletes ==
  /\ (Len(tasks) > 0) ~> AllCached(metadata)
  /\ [][AllCached(metadata) => AllCached(metadata)']_vars
  /\ \A l \in {"l1", "l2"} :
       (req[l].kind = "by-date" /\ req[l].pc = "run") ~> ByDateDone(l)
  /\ [][\A l \in {"l1", "l2"} :
          req'[l] # req[l] => metadata' = metadata]_vars
  /\ [](\A l \in {"l1", "l2"} :
          (ByDateDone(l) /\ AllCached(req[l].cached0)) => StatusFiles(l) = {})

\* C5 witness: a listing that began before the task had cached everything
\* and showed a .status file, the task having since finished
C5_Witness ==
  /\ Len(tasks) > 0 /\ tasks[1].state = "done" /\ Len(history) = 2
  /\ AllCached(metadata)
  /\ \E l \in {"l1", "l2"} : ByDateDone(l) /\ StatusFiles(l) # {}
  /\ \E l \in {"l1", "l2"} :
       ByDateDone(l) /\ AllCached(req[l].cached0) /\ StatusFiles(l) = {}

(***************************************************************************)
(* Concurrent listings of one node                                         *)
(***************************************************************************)
\* listers a and b list the same node
SameNode(a, b) ==
  /\ a # b
  /\ req[a].pc \in {"run", "done"} /\ req[b].pc \in {"run", "done"}
  /\ req[a].kind = req[b].kind /\ req[a].prefix = req[b].prefix

\* what the two have been given so far agrees, and all of it once both are done
SameChildren(a, b) ==
  /\ \A k \in 1..Min(Len(req[a].out), Len(req[b].out)) : req[a].out[k] = req[b].out[k]
  /\ (req[a].pc = "done" /\ req[b].pc = "done") => req[a].out = req[b].out

ShardNodes == {n \in DOMAIN direntry : n.kind \in {"by-hash", "by-page"}}

\* C9, in what it says of a set entry: the list the cache holds for a
\* by-hash or by-page node, once set, is frozen: no later step of any
\* listing changes it.
C9_FrozenOnceSet ==
  [][\A n \in ShardNodes : direntry'[n] = direntry[n]]_vars

\* the listers of a page node, by-page/NNN
PageListers == {l \in Listers : req[l].kind = "by-page" /\ req[l].prefix # <<>>}

\* C19: what listing a page node through its compute_entries returns, yielded
\* or still to yield, is the page's symlinks: at most PAGE_SIZE entries, each
\* a FuseSymlinkEntry named by a commit of the history and none a page
\* directory.
C19_PageListsItsSymlinks ==
  \A l \in PageListers :
    LET children == req[l].out \o req[l].pending IN
    /\ Len(children) <= PAGE_SIZE
    /\ \A k \in 1..Len(children) :
         /\ children[k].cls = "FuseSymlinkEntry"
         /\ children[k].cls # "RevisionHistoryShardByPage"
         /\ \E c \in Range(history) : children[k].name = SwhidStr(c)

(***************************************************************************)
(* The population task                                                     *)
(***************************************************************************)
\* the listers that have listed history/
HistoryListers == {l \in Listers : req[l].kind = "history"}

\* C11: there is one population task per listing of history/ and no other:
\* a task is spawned exactly by the step that begins a history/ listing, on
\* the whole history, and by no step of a by-date, by-hash or by-page
\* listing; a task fetches the commits one after another in the order of
\* the history, so what it has cached is always the commits before its
\* position.
C11_OneTaskPerHistoryListing ==
  /\ [](Len(tasks) = Cardinality(HistoryListers))
  /\ [][tasks' # tasks /\ Len(tasks') # Len(tasks) =>
          /\ \E l \in Listers : req[l].pc = "idle" /\ req'[l].kind = "history"
          /\ tasks' = Append(tasks, tasks'[Len(tasks')])
          /\ tasks'[Len(tasks')].swhids = history
          /\ tasks'[Len(tasks')].i = 1]_vars
  /\ [][\A l \in Listers :
          (req'[l] # req[l] /\ req'[l].kind \in {"by-date", "by-hash", "by-page"})
            => tasks' = tasks]_vars
  /\ [][\A t \in 1..Len(tasks) :
          tasks'[t].i # tasks[t].i =>
            /\ tasks'[t].i = tasks[t].i + 1
            /\ metadata' = metadata \cup {tasks[t].swhids[tasks[t].i]}]_vars
  /\ [](\A t \in 1..Len(tasks) :
          metadata = {tasks[t].swhids[k] : k \in 1..(tasks[t].i - 1)})

\* C11 witness: history/ listed once, a by-hash and a by-date node listed
\* to the end, and the one task through with both commits
C11_Witness ==
  /\ Len(tasks) = 1 /\ tasks[1].state = "done" /\ tasks[1].i = 3
  /\ req["l3"].kind = "history" /\ req["l3"].pc = "done"
  /\ req["l1"].kind = "by-hash" /\ req["l1"].pc = "done"
  /\ req["l2"].kind = "by-date" /\ req["l2"].pc = "done"

\* C12: a fetch that fails in the population task fails no listing: neither
\* the history/ listing that spawned the task nor a by-date listing ever
\* raises; and every by-date listing begun after the failure, with a commit
\* left unresolved and nothing resolved while it runs, shows the .status
\* file.
C12_TaskFailureAbsorbed ==
  /\ \A l \in Listers : req[l].pc # "raised"
  /\ \A l \in Listers :
       (ByDateDone(l) /\ req[l].failed0 /\ ~AllCached(metadata)
          /\ req[l].cached0 = metadata) => StatusFiles(l) # {}

(***************************************************************************)
(* Tag listings                                                            *)
(***************************************************************************)
\* what the chain that starts at the listed tag's target runs through
RECURSIVE ChainFrom(_, _)
ChainFrom(swhid, fuel) ==
  IF fuel = 0 \/ swhid.object_type # "release" THEN {swhid}
  ELSE {swhid} \cup ChainFrom(upstream[swhid].target, fuel - 1)

Chain == ChainFrom(upstream[Tag(1)].target, MaxChain + 1)

\* the tree the chain resolves to: the one recorded in its commit, or the
\* tree it ends in, or none
ChainTree ==
  IF \E x \in Chain : x.object_type = "revision"
  THEN {upstream[x].directory : x \in {y \in Chain : y.object_type = "revision"}}
  ELSE {x \in Chain : x.object_type = "directory"}

\* the entries named root that lister l was given
RootEntries(l) ==
  {k \in 1..Len(req[l].out) : req[l].out[k].name = <<"r", "o", "o", "t">>}

\* C13: find_root_directory makes one call per object of the chain and no
\* more; a listing whose fetches all succeed ends without error, and then
\* it holds exactly one root entry, a symlink to the archive entry of the
\* tree the chain resolves to, placed last, when the chain ends in a commit
\* or a tree, and no root entry when it ends in a blob.
C13_RootOfTagChain ==
  \A l \in Listers :
    req[l].kind = "release" =>
      /\ req[l].pc \in {"run", "done", "fetch-failed"}
      /\ req[l].i <= Cardinality(Chain) + 1
      /\ req[l].pc = "done" =>
           /\ req[l].i = Cardinality(Chain) + 1
           /\ Cardinality(RootEntries(l)) = Cardinality(ChainTree)
           /\ \A d \in ChainTree :
                /\ RootEntries(l) = {Len(req[l].out)}
                /\ req[l].out[Len(req[l].out)] =
                     SymlinkEntry(<<"r", "o", "o", "t">>,
                       <<".", ".", "/", "a", "r", "c", "h", "i", "v", "e", "/",
                         "s", "w", "h", ":", "1", ":", "d", "i", "r", ":">>
                       \o d.object_id)

\* C13 witness: a chain tag -> tag -> tag -> commit -> tree listed to the
\* end, and root yielded
C13_Witness ==
  /\ req["l1"].kind = "release" /\ req["l1"].pc = "done"
  /\ Cardinality(Chain) = MaxChain
  /\ \E x \in Chain : x.object_type = "revision"
  /\ RootEntries("l1") # {}

(***************************************************************************)
(* Commit listings                                                         *)
(***************************************************************************)
\* the parents recorded for the listed commit
Parents == upstream[ListedRevision].parents

\* the entries of lister l with the given name
Named(l, name) == {k \in 1..Len(req[l].out) : req[l].out[k].name = name}

\* C14: the listing of a commit with n parents holds the entry parent, a
\* symlink to parents/1/, exactly when n >= 1, and the listing of its
\* parents/ directory holds n symlinks, the i-th named by the decimal i and
\* aimed at the archive entry of the i-th parent of the record.
C14_ParentsListing ==
  /\ (req["l1"].kind = "revision" /\ req["l1"].pc = "done") =>
       /\ (Named("l1", <<"p", "a", "r", "e", "n", "t">>) # {}) <=> (Len(Parents) >= 1)
       /\ \A k \in Named("l1", <<"p", "a", "r", "e", "n", "t">>) :
            /\ req["l1"].out[k].cls = "FuseSymlinkEntry"
            /\ req["l1"].out[k].target =
                 <<"p", "a", "r", "e", "n", "t", "s", "/", "1", "/">>
       /\ Cardinality(Named("l1", <<"p", "a", "r", "e", "n", "t", "s">>)) = 1
  /\ (req["l2"].kind = "parents" /\ req["l2"].pc = "done") =>
       /\ Len(req["l2"].out) = Len(Parents)
       /\ \A i \in 1..Len(Parents) :
            /\ req["l2"].out[i].cls = "FuseSymlinkEntry"
            /\ req["l2"].out[i].name = <<<<"1", "2", "3", "4", "5", "6", "7", "8", "9">>[i]>>
            /\ req["l2"].out[i].target =
                 <<".", ".", "/", ".", ".", "/", "a", "r", "c", "h", "i", "v", "e", "/",
                   "s", "w", "h", ":", "1", ":", "r", "e", "v", ":">> \o Parents[i]

\* C14 witness: a commit with MaxParents parents and its parents/ both listed
C14_Witness ==
  /\ req["l1"].kind = "revision" /\ req["l1"].pc = "done"
  /\ req["l2"].kind = "parents" /\ req["l2"].pc = "done"
  /\ Len(Parents) = MaxParents /\ Len(req["l2"].out) = MaxParents

(***************************************************************************)
(* Reads of a blob entry                                                   *)
(***************************************************************************)
\* the size() calls
SizeCalls == {l \in Listers : req[l].kind = "size"}

\* C16: a size() call that begins with the length known, or after another
\* size() call has returned, calls get_blob zero times and returns the known
\* length; one that begins with the length unknown calls get_blob once and,
\* when that returns, gives the length of the bytes, which is then the
\* recorded length, a length of 0 included; a recorded length never changes.
C16_SizeFetchesOnlyWhenUnknown ==
  /\ [](\A l \in SizeCalls :
          /\ (req[l].known0 \/ req[l].after0) =>
               /\ req[l].fetches = 0
               /\ req[l].pc = "done"
               /\ prefetch.known
               /\ req[l].result = prefetch.length
               /\ req[l].result = Len(get_blob(tree[1].target.object_id))
          /\ ~req[l].known0 =>
               /\ req[l].fetches = 1
               /\ req[l].pc = "done" =>
                    /\ req[l].result = Len(get_blob(tree[1].target.object_id))
                    /\ prefetch.known
                    /\ prefetch.length = req[l].result)
  /\ [][prefetch.known => prefetch' = prefetch]_vars

\* C16 witness: on a blob of no bytes created without a hint, one size() has
\* fetched once and returned 0 and a later size() has returned 0 unfetched
C16_Witness ==
  /\ get_blob(tree[1].target.object_id) = <<>>
  /\ \E l, m \in SizeCalls :
       /\ req[l].pc = "done" /\ ~req[l].known0 /\ req[l].fetches = 1
       /\ req[l].result = 0
       /\ req[m].pc = "done" /\ req[m].after0 /\ req[m].fetches = 0
       /\ req[m].result = 0

(***************************************************************************)
(* The views of an empty history                                           *)
(***************************************************************************)
\* the listers of a node of one of the three views
ViewListers == {l \in Listers : req[l].kind \in {"by-date", "by-hash", "by-page"}}

\* C18: on an empty history no listing raises, every listing of a by-date,
\* by-hash or by-page node ends having yielded nothing (no directory, no page,
\* no .status file) under every sharding configuration, and the direntry cache
\* holds the empty list for the by-hash root and the by-page root, and holds
\* nothing else, once history/ has been listed.
C18_EmptyHistory ==
  history = <<>> =>
    /\ \A l \in Listers : req[l].pc # "raised"
    /\ \A l \in ViewListers :
         /\ req[l].pc = "done"
         /\ req[l].out = <<>> /\ req[l].pending = <<>>
         /\ req[l].prefix = <<>>
    /\ \A n \in DOMAIN direntry : n \in {ByHashRoot, ByPageRoot} /\ direntry[n] = <<>>
    /\ \A l \in Listers :
         (req[l].kind = "history" /\ req[l].pc = "done") =>
           DOMAIN direntry = {ByHashRoot, ByPageRoot}

\* C18 witness: on an empty history and a sharding of depth MaxDepth, history/
\* has been listed and then by-date/ and by-hash/
C18_Witness ==
  /\ history = <<>> /\ conf.depth = MaxDepth
  /\ req["l3"].kind = "history" /\ req["l3"].pc = "done"
  /\ req["l1"].kind = "by-date" /\ req["l1"].pc = "done"
  /\ req["l2"].kind = "by-hash" /\ req["l2"].pc = "done"
  /\ direntry[ByPageRoot] = <<>> /\ nset[ByHashRoot] = 2

====
